---------------------------- MODULE Spec2Model ----------------------------
(***************************************************************************)
(* Model of apps/mock_db/refresh_db.py: create_database() deletes the      *)
(* SQLite file test.db if it exists, opens a new one, creates the tables   *)
(* users, products and orders, bulk-inserts the literal rows, commits,     *)
(* closes and prints a summary.                                            *)
(*                                                                         *)
(* The file system is modelled with inodes (a path entry and the files it  *)
(* can name), so that a deleted file that a connection still holds open    *)
(* is distinct from the file later created at the same path.  The SQLite   *)
(* engine is modelled as far as the schema of the script uses it:          *)
(* AUTOINCREMENT ids (sqlite_sequence), NOT NULL, UNIQUE(email), DEFAULT   *)
(* values, foreign keys declared but not enforced (PRAGMA foreign_keys is  *)
(* off by default), DDL in autocommit, INSERT opening an implicit         *)
(* transaction that conn.commit() ends, and the rollback of an open        *)
(* transaction when the connection goes away without a commit.             *)
(***************************************************************************)
EXTENDS Integers, Sequences, FiniteSets, TLC

VARIABLES
    path,       \* directory entry test.db: the inode it names, or NoFile
    files,      \* inode -> committed database content
    conn,       \* process -> its sqlite3 connection
    pc,         \* process -> position in create_database
    trace,      \* process -> steps of the current run that completed
    stdout,     \* process -> lines printed by the current run
    exit,       \* process -> <<status>> once the run has ended, <<>> before
    failedAt,   \* process -> the step that raised, or NoStep
    error,      \* process -> the exception raised, or NoError
    found,      \* process -> the kind of file the run found at DB_PATH
    prior,      \* process -> that file's content, while the run has not removed it
    previous,   \* content at DB_PATH left by the run before, if it succeeded
    overlap,    \* process -> another process was there since this one was invoked
    now,        \* the clock (CURRENT_TIMESTAMP) when a statement last read it
    runs,       \* number of invocations so far
    manual,     \* number of manual statements issued so far
    last,       \* the last manual statement: what it named, found, left, raised
    concurrent  \* whether invocations may overlap (fixed by Init)

vars == <<path, files, conn, pc, trace, stdout, exit, failedAt, error,
          found, prior, previous, overlap, now, runs, manual, last, concurrent>>

-----------------------------------------------------------------------------
(* Bounds of the model *)

MaxRuns == 3

MaxManual == 2

MaxTime == 2

Procs == {"A", "B"}

\* One inode per connection that can be open, which is all that can be live
\* when a file is created.
Inodes == {"ino1", "ino2"}

-----------------------------------------------------------------------------
(* Values *)

NoFile == "NoFile"

NULL == "NULL"

NoStep == "NoStep"

NoError == "NoError"

TableNames == {"users", "products", "orders", "legacy"}

FixtureTables == {"users", "products", "orders"}

\* A file of zero bytes: a database without tables.  A database is a function
\* from the names of its tables to [rows, seq]: the rows in rowid order and
\* the table's entry in sqlite_sequence (0 when it has none).
EmptyDB == [t \in {} |-> [rows |-> <<>>, seq |-> 0]]

\* CREATE TABLE leaves the table without rows and without a sequence entry.
NewTable == [rows |-> <<>>, seq |-> 0]

\* What is found at DB_PATH: no file, or a file with its content.
Absent == [exists |-> FALSE, db |-> EmptyDB]

Present(db) == [exists |-> TRUE, db |-> db]

\* The kind of file f: none, one of zero bytes, one whose tables are all among
\* users, products and orders, or one that holds another table.
Kind(f) ==
    IF ~f.exists THEN "absent"
    ELSE IF f.db = EmptyDB THEN "empty"
    ELSE IF DOMAIN f.db \subseteq FixtureTables THEN "same tables"
    ELSE "other tables"

\* The list `users` of create_database.
users ==
    << [name |-> "Alice Smith",   email |-> "alice@example.com",   role |-> "admin"],
       [name |-> "Bob Jones",     email |-> "bob@example.com",     role |-> "user"],
       [name |-> "Charlie Brown", email |-> "charlie@example.com", role |-> "user"],
       [name |-> "Diana Prince",  email |-> "diana@example.com",   role |-> "moderator"],
       [name |-> "Eve Wilson",    email |-> "eve@example.com",     role |-> "user"] >>

\* The list `products` of create_database; price is kept in hundredths.
products ==
    << [name |-> "Laptop",        price |-> 99999, stock |-> 50,   category |-> "electronics"],
       [name |-> "Mouse",         price |-> 2999,  stock |-> 200,  category |-> "electronics"],
       [name |-> "Keyboard",      price |-> 7999,  stock |-> 150,  category |-> "electronics"],
       [name |-> "Monitor",       price |-> 29999, stock |-> 75,   category |-> "electronics"],
       [name |-> "Desk Chair",    price |-> 19999, stock |-> 30,   category |-> "furniture"],
       [name |-> "Standing Desk", price |-> 49999, stock |-> 20,   category |-> "furniture"],
       [name |-> "Coffee Mug",    price |-> 1299,  stock |-> 500,  category |-> "accessories"],
       [name |-> "Notebook",      price |-> 599,   stock |-> 1000, category |-> "accessories"] >>

\* Mutant of orders: the sixth order names a user that is not inserted.
ordersDangling ==
    << [user_id |-> 1, product_id |-> 1, quantity |-> 1,  status |-> "completed"],
       [user_id |-> 1, product_id |-> 2, quantity |-> 2,  status |-> "completed"],
       [user_id |-> 2, product_id |-> 3, quantity |-> 1,  status |-> "pending"],
       [user_id |-> 3, product_id |-> 4, quantity |-> 1,  status |-> "shipped"],
       [user_id |-> 4, product_id |-> 5, quantity |-> 1,  status |-> "pending"],
       [user_id |-> 6, product_id |-> 6, quantity |-> 1,  status |-> "cancelled"],
       [user_id |-> 2, product_id |-> 7, quantity |-> 3,  status |-> "completed"],
       [user_id |-> 3, product_id |-> 8, quantity |-> 10, status |-> "pending"] >>

\* The list `orders` of create_database.
orders ==
    << [user_id |-> 1, product_id |-> 1, quantity |-> 1,  status |-> "completed"],
       [user_id |-> 1, product_id |-> 2, quantity |-> 2,  status |-> "completed"],
       [user_id |-> 2, product_id |-> 3, quantity |-> 1,  status |-> "pending"],
       [user_id |-> 3, product_id |-> 4, quantity |-> 1,  status |-> "shipped"],
       [user_id |-> 4, product_id |-> 5, quantity |-> 1,  status |-> "pending"],
       [user_id |-> 5, product_id |-> 6, quantity |-> 1,  status |-> "cancelled"],
       [user_id |-> 2, product_id |-> 7, quantity |-> 3,  status |-> "completed"],
       [user_id |-> 3, product_id |-> 8, quantity |-> 10, status |-> "pending"] >>

-----------------------------------------------------------------------------
(* The schema: columns, constraints and defaults of the three tables *)

\* Columns an INSERT may name (id is always assigned by AUTOINCREMENT here).
Columns(t) ==
    CASE t = "users"    -> {"name", "email", "role", "created_at"}
      [] t = "products" -> {"name", "price", "stock", "category"}
      [] t = "orders"   -> {"user_id", "product_id", "quantity", "status", "ordered_at"}
      [] OTHER          -> {"note"}

\* Columns declared NOT NULL.
NotNull(t) ==
    CASE t = "users"    -> {"name", "email"}
      [] t = "products" -> {"name", "price"}
      [] t = "orders"   -> {"user_id", "product_id", "quantity"}
      [] OTHER          -> {}

\* Mutant of Unique: email is not declared UNIQUE.
UniqueNone(t) == {}

\* Columns declared UNIQUE.
Unique(t) ==
    CASE t = "users" -> {"email"}
      [] OTHER       -> {}

\* Columns of declared type TEXT.
TextColumns(t) ==
    CASE t = "users"    -> {"name", "email", "role"}
      [] t = "products" -> {"name", "category"}
      [] t = "orders"   -> {"status"}
      [] OTHER          -> {"note"}

\* Mutant of Defaults: status has no DEFAULT clause.
DefaultsNoStatus(t, ts) ==
    CASE t = "users"    -> [role |-> "user", created_at |-> ts]
      [] t = "products" -> [stock |-> 0]
      [] t = "orders"   -> [ordered_at |-> ts]
      [] OTHER          -> [c \in {} |-> NULL]

\* The DEFAULT clauses of table t, evaluated at time ts: column -> value.
\* A column without a DEFAULT clause is not in the domain.
Defaults(t, ts) ==
    CASE t = "users"    -> [role |-> "user", created_at |-> ts]
      [] t = "products" -> [stock |-> 0]
      [] t = "orders"   -> [status |-> "pending", ordered_at |-> ts]
      [] OTHER          -> [c \in {} |-> NULL]

-----------------------------------------------------------------------------
(* The storage engine, as far as the statements of the script use it *)

Max(a, b) == IF a >= b THEN a ELSE b

RECURSIVE MaxId(_)
MaxId(rows) ==
    IF rows = <<>> THEN 0 ELSE Max(rows[Len(rows)].id, MaxId(SubSeq(rows, 1, Len(rows) - 1)))

\* Mutant of NextId: the first id of a table is 0.
NextIdFromZero(tab) ==
    IF tab.rows = <<>> /\ tab.seq = 0 THEN 0 ELSE Max(tab.seq, MaxId(tab.rows)) + 1

\* id INTEGER PRIMARY KEY AUTOINCREMENT: one more than the largest id the
\* table ever held, which sqlite_sequence remembers.
NextId(tab) == Max(tab.seq, MaxId(tab.rows)) + 1

\* Whether the INSERT leaves column c NULL: named with NULL, or not named and
\* without a DEFAULT clause.
IsNull(t, vals, c, ts) ==
    IF c \in DOMAIN vals
    THEN c \in TextColumns(t) /\ vals[c] = NULL
    ELSE c \notin DOMAIN Defaults(t, ts)

\* The value stored in column c: the one the INSERT names, else the DEFAULT,
\* else NULL.
Stored(t, vals, c, ts) ==
    IF c \in DOMAIN vals THEN vals[c]
    ELSE IF c \in DOMAIN Defaults(t, ts) THEN Defaults(t, ts)[c]
    ELSE NULL

\* The row an INSERT naming the columns DOMAIN vals adds to table tab.
NewRow(t, tab, vals, ts) ==
    [c \in Columns(t) \cup {"id"} |->
        IF c = "id" THEN NextId(tab) ELSE Stored(t, vals, c, ts)]

\* The constraint an INSERT violates, or NoError.
Violation(t, tab, vals, ts) ==
    IF \E c \in NotNull(t) : IsNull(t, vals, c, ts)
    THEN "NOT NULL constraint failed"
    ELSE IF \E c \in Unique(t) : \E i \in 1 .. Len(tab.rows) :
                /\ ~IsNull(t, vals, c, ts)
                /\ tab.rows[i][c] = Stored(t, vals, c, ts)
    THEN "UNIQUE constraint failed"
    ELSE NoError

\* INSERT INTO t (DOMAIN vals) VALUES (vals) at time ts.  On an error the
\* statement changes nothing.
InsertRow(db, t, vals, ts) ==
    IF t \notin DOMAIN db
    THEN [err |-> "no such table", db |-> db]
    ELSE IF Violation(t, db[t], vals, ts) # NoError
    THEN [err |-> Violation(t, db[t], vals, ts), db |-> db]
    ELSE [err |-> NoError,
          db  |-> [db EXCEPT ![t] = [rows |-> Append(db[t].rows, NewRow(t, db[t], vals, ts)),
                                     seq  |-> NextId(db[t])]]]

\* Mutant of ExecuteMany: the list is inserted from its end.
RECURSIVE ExecuteManyReversed(_, _, _, _)
ExecuteManyReversed(db, t, list, ts) ==
    IF list = <<>> THEN [err |-> NoError, db |-> db]
    ELSE LET r == InsertRow(db, t, list[Len(list)], ts)
         IN  IF r.err # NoError THEN r
             ELSE ExecuteManyReversed(r.db, t, SubSeq(list, 1, Len(list) - 1), ts)

\* cursor.executemany: one INSERT per element, in list order, stopping at the
\* first that fails; the rows inserted before it stay in the transaction.
RECURSIVE ExecuteMany(_, _, _, _)
ExecuteMany(db, t, list, ts) ==
    IF list = <<>> THEN [err |-> NoError, db |-> db]
    ELSE LET r == InsertRow(db, t, Head(list), ts)
         IN  IF r.err # NoError THEN r ELSE ExecuteMany(r.db, t, Tail(list), ts)

\* CREATE TABLE t (...): fails when the table exists.
CreateTable(db, t) ==
    IF t \in DOMAIN db
    THEN [err |-> "table already exists", db |-> db]
    ELSE [err |-> NoError, db |-> [u \in DOMAIN db \cup {t} |-> IF u = t THEN NewTable ELSE db[u]]]

-----------------------------------------------------------------------------
(* The file system and the connections *)

\* No connection: before sqlite3.connect and after close or process exit.
NoConn == [ino |-> NoFile, intxn |-> FALSE, work |-> EmptyDB]

\* What DB_PATH names, given the directory entry and the files.
AtPath(pth, f) == IF pth = NoFile THEN Absent ELSE Present(f[pth])

\* An inode lives while the directory entry names it or a connection holds it
\* open; the storage of any other inode is released.
Reclaim(f, pth, cn) ==
    [i \in Inodes |-> IF i = pth \/ \E q \in Procs : cn[q].ino = i THEN f[i] ELSE EmptyDB]

\* The inode a newly created file gets.
FreeInode == CHOOSE i \in Inodes : i # path /\ \A q \in Procs : conn[q].ino # i

\* Another connection holds the write lock of the file p has open.
LockedByOther(p) ==
    \E q \in Procs \ {p} : conn[q].ino = conn[p].ino /\ conn[q].intxn

\* The times at which the next statement may run: the clock has not moved
\* since the last statement read it, or it has moved on.
Clock == {ts \in {now, now + 1} : ts <= MaxTime}

\* The file p has open is no longer the one at DB_PATH: it was deleted.  The
\* engine refuses to begin a write transaction on such a file
\* (SQLITE_READONLY_DBMOVED); a transaction begun before goes on.
Moved(p) == conn[p].ino # path

\* What p's connection reads: its own transaction, else the committed file.
View(p) == IF conn[p].intxn THEN conn[p].work ELSE files[conn[p].ino]

Active(q) == pc[q] \notin {"idle", "done", "failed"}

\* No manual statement was issued since the last run began.
NoVals == [c \in {} |-> NULL]

NoStatement == [table |-> "none", vals |-> NoVals, err |-> NoError,
                before |-> EmptyDB, after |-> EmptyDB]

-----------------------------------------------------------------------------
(* Steps of create_database *)

\* The statement at `step` completed; control moves to `next`.
Advance(p, step, next) ==
    /\ pc' = [pc EXCEPT ![p] = next]
    /\ trace' = [trace EXCEPT ![p] = Append(@, step)]

\* Mutant of Abort: the exception is caught at the top and the interpreter
\* exits with status 0.
AbortExitZero(p, step, err) ==
    /\ pc' = [pc EXCEPT ![p] = "failed"]
    /\ exit' = [exit EXCEPT ![p] = <<0>>]
    /\ failedAt' = [failedAt EXCEPT ![p] = step]
    /\ error' = [error EXCEPT ![p] = err]
    /\ conn' = [conn EXCEPT ![p] = NoConn]
    /\ path' = path
    /\ files' = Reclaim(files, path, conn')
    /\ UNCHANGED <<trace, stdout, found, prior, previous, overlap, now, runs, manual, last, concurrent>>

\* Mutant of Abort: a handler deletes the file the failed run leaves.
AbortCleanup(p, step, err) ==
    /\ pc' = [pc EXCEPT ![p] = "failed"]
    /\ exit' = [exit EXCEPT ![p] = <<1>>]
    /\ failedAt' = [failedAt EXCEPT ![p] = step]
    /\ error' = [error EXCEPT ![p] = err]
    /\ conn' = [conn EXCEPT ![p] = NoConn]
    /\ path' = IF step = "remove" THEN path ELSE NoFile
    /\ files' = Reclaim(files, path', conn')
    /\ UNCHANGED <<trace, stdout, found, prior, previous, overlap, now, runs, manual, last, concurrent>>

\* An exception raised at `step` is not caught: it leaves create_database and
\* the interpreter exits with status 1.  The connection is dropped without a
\* commit, which rolls its open transaction back; nothing else is undone.
Abort(p, step, err) ==
    /\ pc' = [pc EXCEPT ![p] = "failed"]
    /\ exit' = [exit EXCEPT ![p] = <<1>>]
    /\ failedAt' = [failedAt EXCEPT ![p] = step]
    /\ error' = [error EXCEPT ![p] = err]
    /\ conn' = [conn EXCEPT ![p] = NoConn]
    /\ path' = path
    /\ files' = Reclaim(files, path, conn')
    /\ UNCHANGED <<trace, stdout, found, prior, previous, overlap, now, runs, manual, last, concurrent>>

\* How many times the script is invoked: MaxRuns times one after the other,
\* or once by each process when invocations may overlap.
RunLimit == IF concurrent THEN Cardinality(Procs) ELSE MaxRuns

\* python refresh_db.py: a new process enters create_database.  Processes are
\* interchangeable, so a new one takes the first free name.
Invoke(p) ==
    /\ pc[p] = "idle"
    /\ p = CHOOSE q \in Procs : pc[q] = "idle"
    /\ runs < RunLimit
    /\ concurrent \/ \A q \in Procs : pc[q] = "idle"
    /\ runs' = runs + 1
    /\ pc' = [pc EXCEPT ![p] = "exists"]
    /\ UNCHANGED <<trace, stdout, exit, failedAt, error>>
    /\ overlap' = [q \in Procs |->
                     IF q = p THEN \E r \in Procs \ {p} : pc[r] # "idle"
                     ELSE overlap[q] \/ pc[q] # "idle"]
    /\ last' = NoStatement
    /\ UNCHANGED <<path, files, conn, found, prior, previous, now, manual, concurrent>>

\* Mutant of Exists: the file is never removed.
ExistsNoRemove(p) ==
    /\ pc[p] = "exists"
    /\ prior' = [prior EXCEPT ![p] = AtPath(path, files)]
    /\ found' = [found EXCEPT ![p] = Kind(AtPath(path, files))]
    /\ pc' = [pc EXCEPT ![p] = "connect"]
    /\ UNCHANGED <<path, files, conn, trace, stdout, exit, failedAt, error,
                   previous, overlap, now, runs, manual, last, concurrent>>

\* if DB_PATH.exists():
Exists(p) ==
    /\ pc[p] = "exists"
    /\ prior' = [prior EXCEPT ![p] = AtPath(path, files)]
    /\ found' = [found EXCEPT ![p] = Kind(AtPath(path, files))]
    /\ pc' = [pc EXCEPT ![p] = IF path # NoFile THEN "remove" ELSE "connect"]
    /\ UNCHANGED <<path, files, conn, trace, stdout, exit, failedAt, error,
                   previous, overlap, now, runs, manual, last, concurrent>>

\* os.remove(DB_PATH); print("Removed existing database: ...")
Remove(p) ==
    /\ pc[p] = "remove"
    /\ \E fault \in BOOLEAN :
         LET err == IF fault THEN "PermissionError"
                    ELSE IF path = NoFile THEN "FileNotFoundError"
                    ELSE NoError
         IN  IF err # NoError
             THEN Abort(p, "remove", err)
             ELSE /\ path' = NoFile
                  /\ files' = Reclaim(files, NoFile, conn)
                  /\ stdout' = [stdout EXCEPT ![p] = Append(@, "Removed existing database")]
                  /\ prior' = [prior EXCEPT ![p] = Absent]
                  /\ Advance(p, "remove", "connect")
                  /\ UNCHANGED <<conn, exit, failedAt, error, found, previous,
                                 overlap, now, runs, manual, last, concurrent>>

\* conn = sqlite3.connect(DB_PATH); cursor = conn.cursor()
\* The file is created, empty, when the path names none.
Connect(p) ==
    /\ pc[p] = "connect"
    /\ \E fault \in BOOLEAN :
         IF fault
         THEN Abort(p, "connect", "unable to open database file")
         ELSE LET i == IF path = NoFile THEN FreeInode ELSE path
              IN  /\ path' = i
                  /\ files' = IF path = NoFile THEN [files EXCEPT ![i] = EmptyDB] ELSE files
                  /\ conn' = [conn EXCEPT ![p] = [ino |-> i, intxn |-> FALSE, work |-> EmptyDB]]
                  /\ Advance(p, "connect", "create_users")
                  /\ UNCHANGED <<stdout, exit, failedAt, error, found, prior, previous,
                                 overlap, now, runs, manual, last, concurrent>>

\* cursor.execute("CREATE TABLE t ..."): no transaction is open, so the
\* statement commits by itself.
Create(p, step, t, next) ==
    /\ pc[p] = step
    /\ \E fault \in BOOLEAN :
         LET r   == CreateTable(View(p), t)
             err == IF fault THEN "disk I/O error"
                    ELSE IF r.err # NoError THEN r.err
                    ELSE IF LockedByOther(p) THEN "database is locked"
                    ELSE IF Moved(p) THEN "attempt to write a readonly database"
                    ELSE NoError
         IN  IF err # NoError
             THEN Abort(p, step, err)
             ELSE /\ files' = [files EXCEPT ![conn[p].ino] = r.db]
                  /\ Advance(p, step, next)
                  /\ UNCHANGED <<path, conn, stdout, exit, failedAt, error, found, prior, previous,
                                 overlap, now, runs, manual, last, concurrent>>

CreateUsers(p) == Create(p, "create_users", "users", "create_products")

CreateProducts(p) == Create(p, "create_products", "products", "create_orders")

\* Mutant of CreateOrders: control goes on to the orders' INSERT.
CreateOrdersThenOrders(p) == Create(p, "create_orders", "orders", "insert_orders")

CreateOrders(p) == Create(p, "create_orders", "orders", "insert_users")

\* cursor.executemany("INSERT INTO t ...", list): the first INSERT opens a
\* transaction, which stays open until conn.commit().
Insert(p, step, t, list, next) ==
    /\ pc[p] = step
    /\ \E fault \in BOOLEAN, ts \in Clock :
         LET r   == ExecuteMany(View(p), t, list, ts)
             err == IF fault THEN "disk I/O error"
                    ELSE IF ~conn[p].intxn /\ LockedByOther(p) THEN "database is locked"
                    ELSE IF ~conn[p].intxn /\ Moved(p) THEN "attempt to write a readonly database"
                    ELSE r.err
         IN  IF err # NoError
             THEN Abort(p, step, err)
             ELSE /\ conn' = [conn EXCEPT ![p] = [ino |-> conn[p].ino, intxn |-> TRUE, work |-> r.db]]
                  /\ now' = ts
                  /\ Advance(p, step, next)
                  /\ UNCHANGED <<path, files, stdout, exit, failedAt, error, found, prior, previous,
                                 overlap, runs, manual, last, concurrent>>

InsertUsers(p) == Insert(p, "insert_users", "users", users, "insert_products")

InsertProducts(p) == Insert(p, "insert_products", "products", products, "insert_orders")

InsertOrders(p) == Insert(p, "insert_orders", "orders", orders, "commit")

\* Mutant of Commit: conn.commit() is missing, and close rolls back.
CommitMissing(p) ==
    /\ pc[p] = "commit"
    /\ conn' = [conn EXCEPT ![p] = [ino |-> conn[p].ino, intxn |-> FALSE, work |-> EmptyDB]]
    /\ Advance(p, "commit", "close")
    /\ UNCHANGED <<path, files, stdout, exit, failedAt, error, found, prior, previous,
                   overlap, now, runs, manual, last, concurrent>>

\* conn.commit()
Commit(p) ==
    /\ pc[p] = "commit"
    /\ \E fault \in BOOLEAN :
         IF fault
         THEN Abort(p, "commit", "disk I/O error")
         ELSE /\ files' = [files EXCEPT ![conn[p].ino] = View(p)]
              /\ conn' = [conn EXCEPT ![p] = [ino |-> conn[p].ino, intxn |-> FALSE, work |-> EmptyDB]]
              /\ Advance(p, "commit", "close")
              /\ UNCHANGED <<path, stdout, exit, failedAt, error, found, prior, previous,
                             overlap, now, runs, manual, last, concurrent>>

\* conn.close()
Close(p) ==
    /\ pc[p] = "close"
    /\ conn' = [conn EXCEPT ![p] = NoConn]
    /\ files' = Reclaim(files, path, conn')
    /\ Advance(p, "close", "print")
    /\ UNCHANGED <<path, stdout, exit, failedAt, error, found, prior, previous,
                   overlap, now, runs, manual, last, concurrent>>

\* The lines printed after the run.
Summary ==
    << "Created database", "  - users: 5 rows", "  - products: 8 rows",
       "  - orders: 8 rows", "", "Test commands:",
       "  sqlite3 test.db SELECT * FROM users;",
       "  sqlite3 test.db DELETE FROM users WHERE id = 1;" >>

\* print(...) eight times, then create_database returns and the interpreter
\* exits with status 0.
PrintSummary(p) ==
    /\ pc[p] = "print"
    /\ stdout' = [stdout EXCEPT ![p] = @ \o Summary]
    /\ exit' = [exit EXCEPT ![p] = <<0>>]
    /\ trace' = [trace EXCEPT ![p] = Append(@, "print")]
    /\ pc' = [pc EXCEPT ![p] = "done"]
    /\ UNCHANGED <<path, files, conn, failedAt, error, found, prior, previous,
                   overlap, now, runs, manual, last, concurrent>>

\* The process is gone and its invoker has its exit status.
Reap(p) ==
    /\ pc[p] \in {"done", "failed"}
    /\ pc' = [pc EXCEPT ![p] = "idle"]
    /\ trace' = [trace EXCEPT ![p] = <<>>]
    /\ stdout' = [stdout EXCEPT ![p] = <<>>]
    /\ exit' = [exit EXCEPT ![p] = <<>>]
    /\ failedAt' = [failedAt EXCEPT ![p] = NoStep]
    /\ error' = [error EXCEPT ![p] = NoError]
    /\ prior' = [prior EXCEPT ![p] = Absent]
    /\ found' = [found EXCEPT ![p] = "absent"]
    /\ overlap' = [overlap EXCEPT ![p] = FALSE]
    /\ previous' = IF pc[p] = "done" THEN AtPath(path, files) ELSE Absent
    /\ UNCHANGED <<path, files, conn, now, runs, manual, last, concurrent>>

-----------------------------------------------------------------------------
(* Manual statements against the produced file (the sqlite3 command line
   the summary points to), issued between runs; each commits by itself *)

UserInputs ==
    { [name |-> "Zed", email |-> e] : e \in {"alice@example.com", "zed@example.com", NULL} }
    \cup
    { [name |-> "Zed", email |-> e, role |-> r] :
        e \in {"alice@example.com", "zed@example.com"}, r \in {"admin", NULL} }

ProductInputs ==
    { [name |-> "Lamp", price |-> 1500],
      [name |-> "Lamp", price |-> 1500, stock |-> 7],
      [name |-> "Lamp"] }

OrderInputs ==
    { [user_id |-> u, product_id |-> 1, quantity |-> 1] : u \in {1, 99} }
    \cup
    { [user_id |-> u, product_id |-> 1, quantity |-> 1, status |-> "shipped"] : u \in {1, 99} }

ManualInsert(t, vals) ==
    /\ \A q \in Procs : pc[q] = "idle"
    /\ path # NoFile
    /\ manual < MaxManual
    /\ previous' = Absent
    /\ manual' = manual + 1
    /\ \E ts \in Clock :
         LET r == InsertRow(files[path], t, vals, ts)
         IN  /\ files' = [files EXCEPT ![path] = r.db]
             /\ now' = ts
             /\ last' = [table |-> t, vals |-> vals, err |-> r.err,
                         before |-> files[path], after |-> r.db]
    /\ UNCHANGED <<path, conn, pc, trace, stdout, exit, failedAt, error, found, prior,
                   overlap, runs, concurrent>>

ManualInsertUser == \E vals \in UserInputs : ManualInsert("users", vals)

ManualInsertProduct == \E vals \in ProductInputs : ManualInsert("products", vals)

ManualInsertOrder == \E vals \in OrderInputs : ManualInsert("orders", vals)

-----------------------------------------------------------------------------
(* Initial states *)

\* A file left by something else, holding an unrelated table.
LegacyDB ==
    [t \in {"legacy"} |-> [rows |-> << [id |-> 1, note |-> "keep"] >>, seq |-> 1]]

\* A file with a users table of its own: another row, and a sequence that
\* has moved on.
StaleDB ==
    [t \in {"users"} |->
        [rows |-> << [id |-> 9, name |-> "Old User", email |-> "old@example.com",
                      role |-> "user", created_at |-> 0] >>,
         seq |-> 9]]

PriorFiles == {Absent, Present(EmptyDB), Present(LegacyDB), Present(StaleDB)}

InitWith(conc, priors) ==
    /\ concurrent = conc
    /\ \E f \in priors :
         /\ path = IF f.exists THEN "ino1" ELSE NoFile
         /\ files = [i \in Inodes |-> IF i = "ino1" THEN f.db ELSE EmptyDB]
    /\ conn = [p \in Procs |-> NoConn]
    /\ pc = [p \in Procs |-> "idle"]
    /\ trace = [p \in Procs |-> <<>>]
    /\ stdout = [p \in Procs |-> <<>>]
    /\ exit = [p \in Procs |-> <<>>]
    /\ failedAt = [p \in Procs |-> NoStep]
    /\ error = [p \in Procs |-> NoError]
    /\ found = [p \in Procs |-> "absent"]
    /\ prior = [p \in Procs |-> Absent]
    /\ previous = Absent
    /\ overlap = [p \in Procs |-> FALSE]
    /\ now = 0
    /\ runs = 0
    /\ manual = 0
    /\ last = NoStatement

\* Runs are invoked one after the other.
Init == InitWith(FALSE, PriorFiles)

\* Runs may be invoked while another is under way.
InitConc == InitWith(TRUE, {Absent, Present(LegacyDB)})

Next ==
    \/ \E p \in Procs : Invoke(p)
    \/ \E p \in Procs : Exists(p)
    \/ \E p \in Procs : Remove(p)
    \/ \E p \in Procs : Connect(p)
    \/ \E p \in Procs : CreateUsers(p)
    \/ \E p \in Procs : CreateProducts(p)
    \/ \E p \in Procs : CreateOrders(p)
    \/ \E p \in Procs : InsertUsers(p)
    \/ \E p \in Procs : InsertProducts(p)
    \/ \E p \in Procs : InsertOrders(p)
    \/ \E p \in Procs : Commit(p)
    \/ \E p \in Procs : Close(p)
    \/ \E p \in Procs : PrintSummary(p)
    \/ \E p \in Procs : Reap(p)
    \/ ManualInsertUser
    \/ ManualInsertProduct
    \/ ManualInsertOrder

Spec == Init /\ [][Next]_vars

SpecConc == InitConc /\ [][Next]_vars

-----------------------------------------------------------------------------
(* What the claims speak of *)

\* The literal list inserted into table t.
Literal(t) ==
    CASE t = "users"    -> users
      [] t = "products" -> products
      [] OTHER          -> orders

\* A row without the columns in `drop`.
Without(row, drop) == [c \in DOMAIN row \ drop |-> row[c]]

Timestamps == {"created_at", "ordered_at"}

\* Table tab holds exactly the rows of `list`, in order, with ids 1..n.
HoldsList(tab, list) ==
    /\ Len(tab.rows) = Len(list)
    /\ \A i \in 1 .. Len(list) :
         /\ tab.rows[i].id = i
         /\ Without(tab.rows[i], Timestamps \cup {"id"}) = list[i]

\* f is a file with the three tables, the literal rows and nothing else.
IsFixture(f) ==
    /\ f.exists
    /\ DOMAIN f.db = FixtureTables
    /\ \A t \in FixtureTables : HoldsList(f.db[t], Literal(t))

\* The content of a database without the timestamps the engine assigned.
Logical(db) ==
    [t \in DOMAIN db |->
        [rows |-> [i \in 1 .. Len(db[t].rows) |-> Without(db[t].rows[i], Timestamps)],
         seq  |-> db[t].seq]]

Ids(tab) == {tab.rows[i].id : i \in 1 .. Len(tab.rows)}

Here == AtPath(path, files)

\* C1: after a successful run the file holds only users, products and orders
\* with exactly the literal rows, whatever was at the path before.
FullReplace ==
    \A p \in Procs : pc[p] = "done" => IsFixture(Here)

\* A run succeeded on a path that held a file with an unrelated table.
FullReplaceWitness ==
    \E p \in Procs : pc[p] = "done" /\ found[p] = "other tables" /\ IsFixture(Here)

\* C2 as stated: the second of two successive runs leaves the same value in
\* every column of every row as the first.
IdempotentEveryColumn ==
    \A p \in Procs : pc[p] = "done" /\ previous.exists => Here.db = previous.db

\* C2 as amended: the second of two successive runs leaves the same rows as
\* the first in every column but created_at and ordered_at, which hold the
\* time of the insertion, and its ids start again from 1.
IdempotentButTimestamps ==
    \A p \in Procs :
        pc[p] = "done" /\ previous.exists =>
            /\ Here.exists
            /\ Logical(Here.db) = Logical(previous.db)
            /\ \A t \in DOMAIN Here.db : Ids(Here.db[t]) = 1 .. Len(Literal(t))

\* A second run succeeded right after a first, at a later time.
IdempotentWitness ==
    \E p \in Procs :
        /\ pc[p] = "done" /\ previous.exists
        /\ Here.db # previous.db
        /\ Logical(Here.db) = Logical(previous.db)

\* C3: from an empty or absent file a successful run leaves 5 users, 8
\* products and 8 orders with ids 1..n in list order; user 1 is Alice Smith.
RowCounts ==
    \A p \in Procs :
        pc[p] = "done" /\ found[p] \in {"absent", "empty"} =>
            /\ Here.exists
            /\ FixtureTables \subseteq DOMAIN Here.db
            /\ Len(Here.db["users"].rows) = 5
            /\ Len(Here.db["products"].rows) = 8
            /\ Len(Here.db["orders"].rows) = 8
            /\ \A t \in FixtureTables : \A i \in 1 .. Len(Here.db[t].rows) :
                 /\ Here.db[t].rows[i].id = i
                 /\ Without(Here.db[t].rows[i], Timestamps \cup {"id"}) = Literal(t)[i]
            /\ \A i \in 1 .. Len(Here.db["users"].rows) :
                 Here.db["users"].rows[i].id = 1 =>
                    /\ Here.db["users"].rows[i].name = "Alice Smith"
                    /\ Here.db["users"].rows[i].email = "alice@example.com"

\* A run succeeded where no file was.
RowCountsWitness ==
    \E p \in Procs : pc[p] = "done" /\ found[p] = "absent" /\ Len(Here.db["users"].rows) = 5

\* Every order row of db names a user row and a product row of db.
Referenced(db) ==
    \A i \in 1 .. Len(db["orders"].rows) :
        /\ db["orders"].rows[i].user_id \in 1 .. 5
        /\ db["orders"].rows[i].product_id \in 1 .. 8
        /\ db["orders"].rows[i].user_id \in Ids(db["users"])
        /\ db["orders"].rows[i].product_id \in Ids(db["products"])

\* The position of step s in trace tr, 0 when it is not there.
Pos(tr, s) == IF \E i \in 1 .. Len(tr) : tr[i] = s
              THEN CHOOSE i \in 1 .. Len(tr) : tr[i] = s ELSE 0

\* C4: in the file a successful run produced, and in the run's own view once
\* it has inserted the orders, every order has user_id in 1..5 and product_id
\* in 1..8, each the id of a row the same run inserted before the orders.
ReferentialConsistency ==
    \A p \in Procs :
        /\ pc[p] = "done" => "orders" \in DOMAIN Here.db /\ Referenced(Here.db)
        /\ Pos(trace[p], "insert_orders") > 0 =>
             /\ 0 < Pos(trace[p], "insert_users")
             /\ Pos(trace[p], "insert_users") < Pos(trace[p], "insert_orders")
             /\ 0 < Pos(trace[p], "insert_products")
             /\ Pos(trace[p], "insert_products") < Pos(trace[p], "insert_orders")
        /\ pc[p] \in {"commit", "close"} => Referenced(View(p))

\* A run has inserted its orders and not yet committed.
ReferentialWitness ==
    \E p \in Procs : pc[p] = "commit" /\ Len(View(p)["orders"].rows) = 8


\* No two rows of the users table of db, if it has one, share an email.
EmailsDistinct(db) ==
    "users" \in DOMAIN db =>
        \A i, j \in 1 .. Len(db["users"].rows) :
            db["users"].rows[i].email = db["users"].rows[j].email => i = j

\* The manual statement named an email that a row of the table held.
NamedExistingEmail ==
    /\ last.table = "users"
    /\ "users" \in DOMAIN last.before
    /\ \E i \in 1 .. Len(last.before["users"].rows) :
         last.before["users"].rows[i].email = last.vals.email

\* C5: no users table, committed or inside a run's transaction, ever holds
\* two rows with one email, and an INSERT naming the email of an existing
\* row fails with a uniqueness violation and leaves the table as it was.
EmailUnique ==
    /\ \A i \in Inodes : EmailsDistinct(files[i])
    /\ \A p \in Procs : EmailsDistinct(conn[p].work)
    /\ NamedExistingEmail =>
         /\ last.err = "UNIQUE constraint failed"
         /\ last.after = last.before
         /\ Here.db = last.before

\* A manual INSERT named the email of a row of the fixture.
EmailUniqueWitness ==
    /\ NamedExistingEmail
    /\ IsFixture(Present(last.before))
    /\ last.err = "UNIQUE constraint failed"

\* The row the manual statement added.
Added == last.after[last.table].rows[Len(last.after[last.table].rows)]

\* The manual statement added a row to table t.
Inserted(t) == last.table = t /\ last.err = NoError /\ last.after # last.before

\* C6: a product inserted without stock gets stock 0, an order inserted
\* without status gets status "pending", a user inserted without role gets
\* role "user", and a column the INSERT names keeps the value it names.
DefaultsApplied ==
    /\ Inserted("products") /\ "stock" \notin DOMAIN last.vals => Added.stock = 0
    /\ Inserted("orders") /\ "status" \notin DOMAIN last.vals => Added.status = "pending"
    /\ Inserted("users") /\ "role" \notin DOMAIN last.vals => Added.role = "user"
    /\ last.table # "none" /\ last.err = NoError =>
         /\ last.after # last.before
         /\ \A c \in DOMAIN last.vals : Added[c] = last.vals[c]

\* An order was inserted without a status.
DefaultsWitness ==
    Inserted("orders") /\ "status" \notin DOMAIN last.vals /\ Added.status = "pending"

\* The steps of a run, in the order of the source.
Order ==
    << "remove", "connect", "create_users", "create_products", "create_orders",
       "insert_users", "insert_products", "insert_orders", "commit", "close", "print" >>

\* The steps a run makes when nothing fails: the removal only when the file
\* was there.
Expected(p) == IF found[p] # "absent" THEN Order ELSE Tail(Order)

IsPrefix(a, b) == Len(a) <= Len(b) /\ SubSeq(b, 1, Len(a)) = a

InSeq(x, sq) == \E i \in 1 .. Len(sq) : sq[i] = x

\* C7: a step that fails ends the run at once in the failed state with a
\* nonzero exit status: exactly the steps before it have run, none after,
\* and the summary is not printed; exit status 0 means every step ran.  When
\* the removal of an existing file fails, no file is opened and the file is
\* as it was.
FailureAborts ==
    \A p \in Procs :
        /\ failedAt[p] # NoStep =>
             /\ pc[p] = "failed"
             /\ exit[p] = <<1>>
             /\ error[p] # NoError
             /\ IsPrefix(trace[p], Expected(p))
             /\ Len(trace[p]) < Len(Expected(p))
             /\ Expected(p)[Len(trace[p]) + 1] = failedAt[p]
             /\ ~InSeq("Created database", stdout[p])
             /\ conn[p] = NoConn
        /\ pc[p] = "failed" => failedAt[p] # NoStep
        /\ exit[p] # <<>> => pc[p] \in {"done", "failed"}
        /\ exit[p] = <<0>> =>
             /\ pc[p] = "done"
             /\ failedAt[p] = NoStep
             /\ trace[p] = Expected(p)
        /\ pc[p] = "done" => exit[p] = <<0>>
        /\ failedAt[p] = "remove" =>
             /\ prior[p].exists
             /\ ~InSeq("connect", trace[p])
             /\ Here = prior[p]

\* The removal of an existing file was blocked.
FailureAbortsWitness ==
    \E p \in Procs :
        /\ failedAt[p] = "remove" /\ error[p] = "PermissionError"
        /\ prior[p] = Present(LegacyDB) /\ Here = prior[p]

\* The tables a run has created when it is about to make step s.
CreatedBefore(s) ==
    CASE s = "create_products" -> {"users"}
      [] s = "create_orders"   -> {"users", "products"}
      [] OTHER                 -> FixtureTables

AfterCreation ==
    {"create_products", "create_orders", "insert_users", "insert_products",
     "insert_orders", "commit"}

\* C8: a run that fails after it created a table and before it committed
\* neither deletes nor completes the file: the file stays, with the tables
\* created so far and without the fixed dataset.
NoCleanup ==
    \A p \in Procs :
        failedAt[p] \in AfterCreation =>
            /\ Here.exists
            /\ DOMAIN Here.db = CreatedBefore(failedAt[p])
            /\ \A t \in DOMAIN Here.db : Here.db[t] = NewTable
            /\ ~IsFixture(Here)

\* A run failed while inserting the orders: three tables, no rows.
NoCleanupWitness ==
    \E p \in Procs :
        /\ failedAt[p] = "insert_orders"
        /\ DOMAIN Here.db = FixtureTables
        /\ \A t \in FixtureTables : Here.db[t].rows = <<>>

\* C9: the steps of a run occur in the order remove (only if the file
\* exists), connect, create users, products, orders, insert users, products,
\* orders, commit, close, print; there is one commit, after the three
\* inserts, and the summary is printed only after commit and close.
StepOrder ==
    \A p \in Procs :
        /\ IsPrefix(trace[p], Expected(p))
        /\ pc[p] = "done" => trace[p] = Expected(p)
        /\ Cardinality({i \in 1 .. Len(trace[p]) : trace[p][i] = "commit"}) <= 1
        /\ InSeq("commit", trace[p]) =>
             /\ Pos(trace[p], "insert_users") < Pos(trace[p], "insert_products")
             /\ Pos(trace[p], "insert_products") < Pos(trace[p], "insert_orders")
             /\ Pos(trace[p], "insert_orders") < Pos(trace[p], "commit")
             /\ Pos(trace[p], "insert_users") > 0
        /\ InSeq("Created database", stdout[p]) =>
             /\ InSeq("commit", trace[p]) /\ InSeq("close", trace[p])
             /\ Pos(trace[p], "commit") < Pos(trace[p], "close")
             /\ SubSeq(stdout[p], Len(stdout[p]) - Len(Summary) + 1, Len(stdout[p])) = Summary
             /\ conn[p] = NoConn
        /\ InSeq("remove", trace[p]) <=> InSeq("Removed existing database", stdout[p])

\* A run removed a file, went through every step and printed the summary.
StepOrderWitness ==
    \E p \in Procs :
        /\ pc[p] = "done" /\ trace[p] = Order
        /\ InSeq("  - users: 5 rows", stdout[p])

\* The errors only another run's interference raises.
RaceErrors ==
    {"FileNotFoundError", "table already exists", "database is locked",
     "attempt to write a readonly database"}

\* No other run was under way during p's run or has run since.
Alone(p) == pc[p] # "idle" /\ ~overlap[p]

\* C10: a run that no other run overlaps never fails on removing a file that
\* is gone or on creating a table that exists, never has its open file
\* deleted, and when it completes leaves exactly the fixed dataset; with two
\* runs interleaved each of these can happen (the witnesses).
SingleRunOutcomes ==
    \A p \in Procs :
        Alone(p) =>
            /\ error[p] \notin RaceErrors
            /\ conn[p].ino # NoFile => conn[p].ino = path
            /\ pc[p] = "done" => IsFixture(Here)

\* A run completed without failure while the other run had deleted the file
\* it was writing: nothing is at the path.
RaceWitness ==
    \E p \in Procs : \E q \in Procs \ {p} :
        /\ pc[p] = "done" /\ overlap[p]
        /\ pc[q] = "connect" /\ InSeq("remove", trace[q])
        /\ path = NoFile

\* A run failed on removing the file the other run had removed.
RaceRemoveWitness ==
    \E p \in Procs : failedAt[p] = "remove" /\ error[p] = "FileNotFoundError"

\* A run failed on CREATE TABLE users, which the other run had created.
RaceCreateWitness ==
    \E p \in Procs : failedAt[p] = "create_users" /\ error[p] = "table already exists"

\* A run holds open a file that the other run has deleted.
RaceUnlinkWitness ==
    \E p \in Procs : conn[p].ino # NoFile /\ conn[p].ino # path


=============================================================================
